---- MODULE Spec2Model ----
(***************************************************************************)
(* The hierarchical timeline store of komet_helpers.py (v2.0 format):      *)
(* load_timeline, save_timeline, add_observation, add_journal_observation, *)
(* get_metric_series, get_latest_value and get_all_latest_metrics.         *)
(*                                                                         *)
(* A JSON value (a Python dict/list/str/number/None tree) is a function    *)
(* from key paths to nodes: the root is the path << >>, a node of kind     *)
(* "dict" has its entries as child paths, a node of kind "list" carries    *)
(* its items (observations {t, v}), every other node is a scalar.  A       *)
(* Python string that the code splits or joins is a TLA+ string, or, where *)
(* the code scans it, a sequence of chunks.                                *)
(***************************************************************************)
EXTENDS Integers, Sequences, FiniteSets, TLC

VARIABLES timeline, clock, file, last

vars == <<timeline, clock, file, last>>

(***************************************************************************)
(* Bounds of the model.                                                    *)
(***************************************************************************)
\* the clock stops advancing here
MaxClock == 1
\* observations a document may hold in total
MaxObs == 2

(***************************************************************************)
(* Python values.                                                          *)
(***************************************************************************)
None == [k |-> "null"]
PyInt(n) == [k |-> "int", n |-> n]
PyFloat(n) == [k |-> "float", n |-> n]
PyBool(b) == [k |-> "bool", n |-> IF b THEN 1 ELSE 0]
PyStr(s) == [k |-> "str", s |-> s]
\* an object json cannot encode natively (a datetime, a Decimal): repr is str(x)
PyObj(s) == [k |-> "obj", s |-> s]
EmptyDict == [k |-> "dict"]
PyList(items) == [k |-> "list", items |-> items]

IsNumber(x) == x.k \in {"int", "float", "bool"}

\* Python's ==  on scalars: numbers (bool included) compare by value across
\* int/float/bool, strings by content, None only equals None.
PyEq(a, b) ==
    IF IsNumber(a) /\ IsNumber(b) THEN a.n = b.n
    ELSE IF a.k = "str" /\ b.k = "str" THEN a.s = b.s
    ELSE IF a.k = "obj" /\ b.k = "obj" THEN a.s = b.s
    ELSE a.k = "null" /\ b.k = "null"

\* bool(x) of a scalar argument (None, a string, a number)
Truthy(x) ==
    CASE x.k = "null" -> FALSE
      [] x.k = "str" -> x.s # ""
      [] x.k = "obj" -> TRUE
      [] OTHER -> x.n # 0

(***************************************************************************)
(* Strings the code splits: a sequence of chunks, "." being the separator. *)
(***************************************************************************)
RECURSIVE SplitFrom(_, _, _)
\* str.split("."): the segments of s[i..], cur being the segment under way
SplitFrom(s, i, cur) ==
    IF i > Len(s) THEN <<cur>>
    ELSE IF s[i] = "." THEN <<cur>> \o SplitFrom(s, i + 1, "")
    ELSE SplitFrom(s, i + 1, cur \o s[i])

Split(s) == SplitFrom(s, 1, "")

RECURSIVE DotJoin(_)
\* ".".join(keys)
DotJoin(keys) ==
    IF keys = << >> THEN ""
    ELSE IF Len(keys) = 1 THEN keys[1]
    ELSE keys[1] \o "." \o DotJoin(Tail(keys))

(***************************************************************************)
(* The clock and format_timestamp.                                         *)
(***************************************************************************)
Digits == <<"0", "1", "2", "3", "4", "5", "6", "7", "8", "9">>

\* datetime.utcnow().isoformat() + "Z" at clock value n
format_timestamp(n) == PyStr("T" \o Digits[n + 1] \o "Z")

(***************************************************************************)
(* Trees.                                                                  *)
(***************************************************************************)
IsPrefix(p, q) == Len(p) <= Len(q) /\ \A i \in 1..Len(p) : q[i] = p[i]

Has(t, p) == p \in DOMAIN t

\* the keys of the dict at p
Keys(t, p) == {q[Len(p) + 1] : q \in {r \in DOMAIN t : Len(r) = Len(p) + 1 /\ IsPrefix(p, r)}}

\* d[key] = val: the entry is replaced, and with it what hung below a dict
SetItem(t, p, val) ==
    IF Has(t, p) /\ t[p].k = "dict"
    THEN [q \in {r \in DOMAIN t : ~IsPrefix(p, r)} \cup {p} |-> IF q = p THEN val ELSE t[q]]
    ELSE [q \in DOMAIN t \cup {p} |-> IF q = p THEN val ELSE t[q]]

\* the value at p as a tree of its own (rooted at << >>)
SubTree(t, p) ==
    [q \in {SubSeq(r, Len(p) + 1, Len(r)) : r \in {r \in DOMAIN t : IsPrefix(p, r)}} |-> t[p \o q]]

\* bool(x) of the node at p
TruthyAt(t, p) ==
    CASE t[p].k = "dict" -> Keys(t, p) # {}
      [] t[p].k = "list" -> t[p].items # << >>
      [] OTHER -> Truthy(t[p])

(***************************************************************************)
(* _create_empty_timeline                                                  *)
(***************************************************************************)
\* the empty document with last_updated stamped at creation
create_stamped_timeline(now) ==
    (<< >> :> EmptyDict)
    @@ (<<"metadata">> :> EmptyDict)
    @@ (<<"metadata", "created">> :> format_timestamp(now))
    @@ (<<"metadata", "last_updated">> :> format_timestamp(now))
    @@ (<<"metadata", "version">> :> PyStr("2.0"))
    @@ (<<"metadata", "description">> :> PyStr("KOMET project evaluation metrics timeline"))
    @@ (<<"metrics">> :> EmptyDict)
    @@ (<<"metrics", "wikidata">> :> EmptyDict)
    @@ (<<"metrics", "wikidata", "description">> :> PyStr("Wikidata scholarly graph metrics"))
    @@ (<<"metrics", "wikidata", "journals">> :> EmptyDict)
    @@ (<<"metrics", "wikidata", "journals", "description">> :>
            PyStr("Partner journal statistics from Wikidata"))
    @@ (<<"metrics", "opencitations">> :> EmptyDict)
    @@ (<<"metrics", "opencitations", "description">> :>
            PyStr("OpenCitations crowdsourcing metrics"))

create_empty_timeline(now) ==
    (<< >> :> EmptyDict)
    @@ (<<"metadata">> :> EmptyDict)
    @@ (<<"metadata", "created">> :> format_timestamp(now))
    @@ (<<"metadata", "last_updated">> :> None)
    @@ (<<"metadata", "version">> :> PyStr("2.0"))
    @@ (<<"metadata", "description">> :> PyStr("KOMET project evaluation metrics timeline"))
    @@ (<<"metrics">> :> EmptyDict)
    @@ (<<"metrics", "wikidata">> :> EmptyDict)
    @@ (<<"metrics", "wikidata", "description">> :> PyStr("Wikidata scholarly graph metrics"))
    @@ (<<"metrics", "wikidata", "journals">> :> EmptyDict)
    @@ (<<"metrics", "wikidata", "journals", "description">> :>
            PyStr("Partner journal statistics from Wikidata"))
    @@ (<<"metrics", "opencitations">> :> EmptyDict)
    @@ (<<"metrics", "opencitations", "description">> :>
            PyStr("OpenCitations crowdsourcing metrics"))

(***************************************************************************)
(* Results of a call: the timeline as the call left it and what the call   *)
(* returned or raised.                                                     *)
(***************************************************************************)
Raise(exc) == [k |-> "raise", exc |-> exc]
Raised(r) == r.k = "raise"
Result(t, ret) == [tl |-> t, ret |-> ret]

\* the change check left out: every call appends
NeverUnchanged(items, value) == FALSE

\* the check "series and series[-1]["v"] == value" on a list of observations
ValueUnchanged(items, value) ==
    items # << >> /\ PyEq(items[Len(items)].v, value)

\* the series started afresh instead of fetched: series = [] for metric.get(...)
RecordIntoFresh(t, mp, value, now) ==
    IF t[mp].k # "dict" THEN Result(t, Raise("AttributeError"))
    ELSE Result(SetItem(t, Append(mp, "series"),
                        PyList(<<[t |-> format_timestamp(now), v |-> value]>>)),
                PyBool(TRUE))

\* the observation appended and then stored once more
RecordIntoTwice(t, mp, value, now) ==
    LET sp == Append(mp, "series")
        obs == [t |-> format_timestamp(now), v |-> value]
    IN
    IF t[mp].k # "dict" THEN Result(t, Raise("AttributeError"))
    ELSE IF ~Has(t, sp) THEN Result(SetItem(t, sp, PyList(<<obs>>)), PyBool(TRUE))
    ELSE IF t[sp].k # "list" THEN Result(t, Raise("TypeError"))
    ELSE IF ValueUnchanged(t[sp].items, value) THEN Result(t, PyBool(FALSE))
    ELSE Result(SetItem(t, sp, PyList(t[sp].items \o <<obs, obs>>)), PyBool(TRUE))

\* an unchanged value refreshing the time of the last observation
RecordIntoRefresh(t, mp, value, now) ==
    LET sp == Append(mp, "series") IN
    IF t[mp].k # "dict" THEN Result(t, Raise("AttributeError"))
    ELSE IF ~Has(t, sp) \/ t[sp].k # "list" \/ ~ValueUnchanged(t[sp].items, value)
        THEN RecordIntoFresh(t, mp, value, now)
    ELSE Result(SetItem(t, sp, PyList([t[sp].items EXCEPT ![Len(t[sp].items)].t =
                                            format_timestamp(now)])),
                PyBool(FALSE))

\* lines 1029-1038 and 1081-1090: metric.get("series", []), the change check,
\* the append and the store back, on the metric at path mp
RecordInto(t, mp, value, now) ==
    LET sp == Append(mp, "series") IN
    IF t[mp].k # "dict" THEN Result(t, Raise("AttributeError"))
    ELSE IF ~Has(t, sp)
        THEN Result(SetItem(t, sp, PyList(<<[t |-> format_timestamp(now), v |-> value]>>)),
                    PyBool(TRUE))
    ELSE IF t[sp].k = "list"
        THEN IF ValueUnchanged(t[sp].items, value)
             THEN Result(t, PyBool(FALSE))
             ELSE Result(SetItem(t, sp, PyList(Append(t[sp].items,
                                    [t |-> format_timestamp(now), v |-> value]))),
                         PyBool(TRUE))
    ELSE IF TruthyAt(t, sp)
        THEN Result(t, Raise(IF t[sp].k = "dict" THEN "KeyError" ELSE "TypeError"))
    ELSE Result(t, Raise("AttributeError"))

\* timeline["metrics"]: "ok", or the exception the subscript raises
MetricsRoot(t) ==
    IF t[<< >>].k = "dict"
    THEN IF Has(t, <<"metrics">>) THEN "ok" ELSE "KeyError"
    ELSE "TypeError"

RECURSIVE Navigate(_, _, _, _)
\* lines 1008-1011: the loop over parts[:-1], from index i, current being cur
Navigate(t, cur, parts, i) ==
    IF i > Len(parts) - 1 THEN [tl |-> t, cur |-> cur, exc |-> "none"]
    ELSE IF t[cur].k # "dict" THEN [tl |-> t, cur |-> cur, exc |-> "TypeError"]
    ELSE LET nxt == Append(cur, parts[i])
         IN Navigate(IF Has(t, nxt) THEN t ELSE SetItem(t, nxt, EmptyDict), nxt, parts, i + 1)

\* the new metric given the name of the call as its unit
NewMetricUnnamed(t, mp, notes, metric_name, metric_description) ==
    LET t1 == SetItem(SetItem(t, mp, EmptyDict), Append(mp, "series"), PyList(<< >>))
    IN SetItem(t1, Append(mp, "unit"), IF Truthy(metric_name) THEN metric_name ELSE PyStr("count"))

\* lines 1017-1026: the new metric, with the descriptive fields that are truthy
NewMetric(t, mp, notes, metric_name, metric_description) ==
    LET t1 == SetItem(SetItem(t, mp, EmptyDict), Append(mp, "series"), PyList(<< >>))
        t2 == IF Truthy(metric_name) THEN SetItem(t1, Append(mp, "name"), metric_name) ELSE t1
        t3 == IF Truthy(metric_description)
              THEN SetItem(t2, Append(mp, "description"), metric_description) ELSE t2
        t4 == IF Truthy(notes) THEN SetItem(t3, Append(mp, "notes"), notes) ELSE t3
    IN SetItem(t4, Append(mp, "unit"), PyStr("count"))

add_observation(t, now, metric_path, value, notes, metric_name, metric_description) ==
    LET parts == Split(metric_path) IN
    IF MetricsRoot(t) # "ok" THEN Result(t, Raise(MetricsRoot(t)))
    ELSE LET nav == Navigate(t, <<"metrics">>, parts, 1)
             mp == Append(nav.cur, parts[Len(parts)])
         IN IF nav.exc # "none" THEN Result(nav.tl, Raise(nav.exc))
            ELSE IF nav.tl[nav.cur].k # "dict" THEN Result(nav.tl, Raise("TypeError"))
            ELSE RecordInto(IF Has(nav.tl, mp) THEN nav.tl
                            ELSE NewMetric(nav.tl, mp, notes, metric_name, metric_description),
                            mp, value, now)

\* lines 1063-1065: timeline["metrics"]["wikidata"].setdefault("journals", {...})
JournalsRoot(t) ==
    IF MetricsRoot(t) # "ok" THEN MetricsRoot(t)
    ELSE IF t[<<"metrics">>].k # "dict" THEN "TypeError"
    ELSE IF ~Has(t, <<"metrics", "wikidata">>) THEN "KeyError"
    ELSE IF t[<<"metrics", "wikidata">>].k # "dict" THEN "AttributeError"
    ELSE "ok"

\* the attribute written whenever an argument is given, whoever wrote before
LastWriter(t, p, val) ==
    IF Truthy(val) THEN SetItem(t, p, val) ELSE t

\* lines 1072-1075: "if journal_name and "name" not in journal", and the same
\* for partner: the attribute at p is written only when it is not there yet
FirstWriter(t, p, val) ==
    IF Truthy(val) /\ ~Has(t, p) THEN SetItem(t, p, val) ELSE t

add_journal_observation(t, now, qid, metric_type, value, journal_name, partner) ==
    LET wd == <<"metrics", "wikidata">>
        js == Append(wd, "journals")
        jp == Append(js, qid)
        mp == Append(jp, metric_type)
    IN
    IF JournalsRoot(t) # "ok" THEN Result(t, Raise(JournalsRoot(t)))
    ELSE LET t0 == IF Has(t, js) THEN t
                   ELSE SetItem(SetItem(t, js, EmptyDict), Append(js, "description"),
                                PyStr("Partner journal statistics from Wikidata"))
         IN IF t0[js].k # "dict" THEN Result(t0, Raise("TypeError"))
            ELSE LET t1 == IF ~Has(t0, jp) \/ t0[jp].k # "dict"
                           THEN SetItem(t0, jp, EmptyDict) ELSE t0
                     t2 == FirstWriter(t1, Append(jp, "name"), journal_name)
                     t3 == FirstWriter(t2, Append(jp, "partner"), partner)
                     t4 == IF ~Has(t3, mp)
                           THEN SetItem(SetItem(t3, mp, EmptyDict), Append(mp, "series"),
                                        PyList(<< >>))
                           ELSE t3
                 IN RecordInto(t4, mp, value, now)

(***************************************************************************)
(* Reading.                                                                *)
(***************************************************************************)
\* needle in hay for two Python strings, over the strings of this model:
\* the one-letter keys that occur in the descriptive texts the code writes
Occurrences ==
    {<<"Wikidata scholarly graph metrics", "m">>,
     <<"Partner journal statistics from Wikidata", "m">>,
     <<"Partner journal statistics from Wikidata", "n">>,
     <<"OpenCitations crowdsourcing metrics", "m">>,
     <<"OpenCitations crowdsourcing metrics", "n">>,
     <<"KOMET project evaluation metrics timeline", "m">>,
     <<"KOMET project evaluation metrics timeline", "n">>,
     <<"count", "n">>}

StrContains(hay, needle) ==
    needle = "" \/ needle = hay \/ <<hay, needle>> \in Occurrences

\* a returned value: the tree below p, or the literal []
ValueAt(t, p) == SubTree(t, p)
EmptyList == (<< >> :> PyList(<< >>))
Return(val) == [k |-> "value", val |-> val]

RECURSIVE Resolve(_, _, _, _)
\* lines 1106-1109: the loop over parts from index i; "missing" is the early
\* return [], "raise" the exception of the membership test or the subscript
Resolve(t, cur, parts, i) ==
    IF i > Len(parts) THEN [at |-> cur, how |-> "found"]
    ELSE CASE t[cur].k = "dict" ->
                IF Has(t, Append(cur, parts[i]))
                THEN Resolve(t, Append(cur, parts[i]), parts, i + 1)
                ELSE [at |-> cur, how |-> "missing"]
           [] t[cur].k \in {"str", "obj"} ->
                IF StrContains(t[cur].s, parts[i])
                THEN [at |-> cur, how |-> "TypeError"]
                ELSE [at |-> cur, how |-> "missing"]
           [] t[cur].k = "list" -> [at |-> cur, how |-> "missing"]
           [] OTHER -> [at |-> cur, how |-> "TypeError"]

get_metric_series(t, metric_path) ==
    IF MetricsRoot(t) # "ok" THEN Raise(MetricsRoot(t))
    ELSE LET r == Resolve(t, <<"metrics">>, Split(metric_path), 1) IN
         CASE r.how = "missing" -> Return(EmptyList)
           [] r.how = "TypeError" -> Raise("TypeError")
           [] OTHER ->
                IF t[r.at].k # "dict" THEN Raise("AttributeError")
                ELSE IF Has(t, Append(r.at, "series"))
                     THEN Return(ValueAt(t, Append(r.at, "series")))
                     ELSE Return(EmptyList)

\* series[-1]["v"] if series else None
get_latest_value(t, metric_path) ==
    LET got == get_metric_series(t, metric_path) IN
    IF Raised(got) THEN got
    ELSE LET s == got.val IN
         IF ~TruthyAt(s, << >>) THEN Return(<< >> :> None)
         ELSE CASE s[<< >>].k = "list" ->
                     Return(<< >> :> s[<< >>].items[Len(s[<< >>].items)].v)
                [] s[<< >>].k = "dict" -> Raise("KeyError")
                [] OTHER -> Raise("TypeError")

SkippedKeys == {"description", "name", "notes", "unit", "partner"}

RECURSIVE collect_metrics(_, _, _)
\* lines 1126-1139 on the dict at p, path being its dotted path: what the walk
\* writes into latest (key, and the node it came from), and whether it raised
collect_metrics(t, p, path) ==
    LET visit(key) ==
            LET c == Append(p, key)
                current_path == IF path # "" THEN path \o "." \o key ELSE key
                sp == Append(c, "series")
            IN IF t[c].k # "dict" THEN [exc |-> "none", out |-> {}]
               ELSE IF Has(t, sp) /\ TruthyAt(t, sp)
                    THEN IF t[sp].k = "list"
                         THEN [exc |-> "none",
                               out |-> {[key |-> current_path, node |-> c,
                                         value |-> t[sp].items[Len(t[sp].items)].v,
                                         timestamp |-> t[sp].items[Len(t[sp].items)].t,
                                         name |-> IF Has(t, Append(c, "name"))
                                                  THEN t[Append(c, "name")]
                                                  ELSE PyStr(key)]}]
                         ELSE [exc |-> IF t[sp].k = "dict" THEN "KeyError" ELSE "TypeError",
                               out |-> {}]
                    ELSE collect_metrics(t, c, current_path)
        rs == {visit(key) : key \in Keys(t, p) \ SkippedKeys}
    IN [exc |-> IF \E r \in rs : r.exc # "none"
                THEN (CHOOSE r \in rs : r.exc # "none").exc ELSE "none",
        out |-> UNION {r.out : r \in rs}]

get_all_latest_metrics(t) ==
    IF MetricsRoot(t) # "ok" THEN Raise(MetricsRoot(t))
    ELSE IF t[<<"metrics">>].k # "dict" THEN Raise("AttributeError")
    ELSE LET r == collect_metrics(t, <<"metrics">>, "") IN
         IF r.exc # "none" THEN Raise(r.exc) ELSE [k |-> "latest", out |-> r.out]

(***************************************************************************)
(* Serialization: json.dump(..., default=str) and json.load.               *)
(***************************************************************************)
\* every value that is not a string sent through str(), as default=str does
\* for the objects json cannot encode
EncodeScalarStr(x) ==
    CASE x.k = "null" -> [lex |-> "string", s |-> "None"]
      [] x.k = "bool" -> [lex |-> "string", s |-> IF x.n = 1 THEN "True" ELSE "False"]
      [] x.k \in {"int", "float"} -> [lex |-> "string", s |-> Digits[x.n + 1]]
      [] OTHER -> [lex |-> "string", s |-> x.s]

\* the JSON token of a scalar; an object json cannot encode goes through str()
EncodeScalar(x) ==
    CASE x.k = "null" -> [lex |-> "literal", text |-> "null"]
      [] x.k = "bool" -> [lex |-> "literal", text |-> IF x.n = 1 THEN "true" ELSE "false"]
      [] x.k = "int" -> [lex |-> "int", n |-> x.n]
      [] x.k = "float" -> [lex |-> "float", n |-> x.n]
      [] x.k = "str" -> [lex |-> "string", s |-> x.s]
      [] x.k = "obj" -> [lex |-> "string", s |-> x.s]

EncodeNode(x) ==
    CASE x.k = "dict" -> [lex |-> "{"]
      [] x.k = "list" ->
            [lex |-> "[",
             items |-> [i \in 1..Len(x.items) |->
                          [t |-> EncodeScalar(x.items[i].t), v |-> EncodeScalar(x.items[i].v)]]]
      [] OTHER -> EncodeScalar(x)

json_dumps(t) == [p \in DOMAIN t |-> EncodeNode(t[p])]

DecodeScalar(tok) ==
    CASE tok.lex = "literal" ->
            IF tok.text = "null" THEN None ELSE PyBool(tok.text = "true")
      [] tok.lex = "int" -> PyInt(tok.n)
      [] tok.lex = "float" -> PyFloat(tok.n)
      [] tok.lex = "string" -> PyStr(tok.s)

DecodeNode(tok) ==
    CASE tok.lex = "{" -> EmptyDict
      [] tok.lex = "[" ->
            PyList([i \in 1..Len(tok.items) |->
                      [t |-> DecodeScalar(tok.items[i].t), v |-> DecodeScalar(tok.items[i].v)]])
      [] OTHER -> DecodeScalar(tok)

json_loads(text) == [p \in DOMAIN text |-> DecodeNode(text[p])]

\* the chunks json.dump writes for a text: one per node, and the closing
\* bracket of a root container
NumChunks(text) ==
    Cardinality(DOMAIN text) + (IF text[<< >>].lex \in {"{", "["} THEN 1 ELSE 0)

NoFile == [exists |-> FALSE]
\* a file holding the first `written` chunks of text
FileOf(text, written) == [exists |-> TRUE, text |-> text, written |-> written]
Complete(f) == f.exists /\ f.written = NumChunks(f.text)

(***************************************************************************)
(* load_timeline and save_timeline.                                        *)
(***************************************************************************)
\* "key in data" for the parsed document data
InData(data, key) ==
    CASE data[<< >>].k = "dict" -> IF Has(data, <<key>>) THEN "yes" ELSE "no"
      [] data[<< >>].k = "list" -> "no"
      [] data[<< >>].k = "str" -> IF StrContains(data[<< >>].s, key) THEN "yes" ELSE "no"
      [] OTHER -> "TypeError"

\* line 938: the test that accepts the parsed document
IsV2Format(data) == InData(data, "metadata") = "yes" /\ InData(data, "metrics") = "yes"

\* the decode error caught along with FileNotFoundError
load_timeline_lenient(f, now) ==
    IF ~f.exists \/ ~Complete(f) THEN Return(create_empty_timeline(now))
    ELSE LET data == json_loads(f.text) IN
         IF InData(data, "metadata") = "TypeError" THEN Raise("TypeError")
         ELSE IF IsV2Format(data) THEN Return(data)
         ELSE Return(create_empty_timeline(now))

load_timeline(f, now) ==
    IF ~f.exists THEN Return(create_empty_timeline(now))
    ELSE IF ~Complete(f) THEN Raise("JSONDecodeError")
    ELSE LET data == json_loads(f.text) IN
         IF InData(data, "metadata") = "TypeError" THEN Raise("TypeError")
         ELSE IF IsV2Format(data) THEN Return(data)
         ELSE Return(create_empty_timeline(now))

\* the stamp put on created as well as on last_updated
StampBoth(t, now) ==
    IF t[<< >>].k # "dict" THEN Result(t, Raise("TypeError"))
    ELSE IF ~Has(t, <<"metadata">>) THEN Result(t, Raise("KeyError"))
    ELSE IF t[<<"metadata">>].k # "dict" THEN Result(t, Raise("TypeError"))
    ELSE Result(SetItem(SetItem(t, <<"metadata", "created">>, format_timestamp(now)),
                        <<"metadata", "last_updated">>, format_timestamp(now)), None)

\* line 971: timeline["metadata"]["last_updated"] = format_timestamp()
StampLastUpdated(t, now) ==
    IF t[<< >>].k # "dict" THEN Result(t, Raise("TypeError"))
    ELSE IF ~Has(t, <<"metadata">>) THEN Result(t, Raise("KeyError"))
    ELSE IF t[<<"metadata">>].k # "dict" THEN Result(t, Raise("TypeError"))
    ELSE Result(SetItem(t, <<"metadata", "last_updated">>, format_timestamp(now)), None)

(***************************************************************************)
(* The state machine.  timeline is the caller's in-memory document, file   *)
(* the storage at filepath, clock the UTC clock, last the latest call with *)
(* its argument (a metric path, as the chunks of the string) and what it   *)
(* returned or raised.                                                     *)
(***************************************************************************)
RECURSIVE SumLen(_, _)
SumLen(t, ps) ==
    IF ps = {} THEN 0
    ELSE LET p == CHOOSE q \in ps : TRUE
         IN (IF t[p].k = "list" THEN Len(t[p].items) ELSE 0) + SumLen(t, ps \ {p})

\* the observations a document holds
NumObs(t) == SumLen(t, DOMAIN t)


\* the observations of the series at a metric path (none when there is no list)
SeriesAt(t, metric_path) ==
    LET sp == <<"metrics">> \o Split(metric_path) \o <<"series">>
    IN IF Has(t, sp) /\ t[sp].k = "list" THEN t[sp].items ELSE << >>

\* a call: pre is the series at its path as the call found it, opts the
\* optional arguments it was given
CallWith(op, arg, value, ret, pre, opts) ==
    [op |-> op, arg |-> arg, value |-> value, ret |-> ret, pre |-> pre, opts |-> opts]

\* a call without optional arguments
Call(op, arg, value, ret, pre) == CallWith(op, arg, value, ret, pre, << >>)

Init ==
    /\ clock = 0
    /\ file = NoFile
    /\ timeline = create_empty_timeline(0)
    /\ last = Call("load_timeline", << >>, None, None, << >>)

AddObservation(path, value, notes, metric_name, metric_description) ==
    LET r == add_observation(timeline, clock, path, value, notes, metric_name,
                             metric_description)
    IN /\ NumObs(r.tl) <= MaxObs
       /\ timeline' = r.tl
       /\ last' = CallWith("add_observation", path, value, r.ret, SeriesAt(timeline, path),
                           <<notes, metric_name, metric_description>>)
       /\ UNCHANGED <<clock, file>>

AddJournalObservation(qid, metric_type, value, journal_name, partner) ==
    LET r == add_journal_observation(timeline, clock, qid, metric_type, value,
                                     journal_name, partner)
        path == <<"wikidata", ".", "journals", ".", qid, ".", metric_type>>
    IN /\ NumObs(r.tl) <= MaxObs
       /\ timeline' = r.tl
       /\ last' = CallWith("add_journal_observation", path, value, r.ret,
                           SeriesAt(timeline, path), <<journal_name, partner>>)
       /\ UNCHANGED <<clock, file>>

GetMetricSeries(path) ==
    /\ last' = Call("get_metric_series", path, None, get_metric_series(timeline, path),
                   << >>)
    /\ UNCHANGED <<timeline, clock, file>>

GetLatestValue(path) ==
    /\ last' = Call("get_latest_value", path, None, get_latest_value(timeline, path),
                   << >>)
    /\ UNCHANGED <<timeline, clock, file>>

GetAllLatestMetrics ==
    /\ last' = Call("get_all_latest_metrics", << >>, None, get_all_latest_metrics(timeline),
                   << >>)
    /\ UNCHANGED <<timeline, clock, file>>

\* save_timeline running to its end
SaveTimeline ==
    LET r == StampLastUpdated(timeline, clock)
    IN /\ timeline' = r.tl
       /\ file' = IF Raised(r.ret) THEN file
                  ELSE FileOf(json_dumps(r.tl), NumChunks(json_dumps(r.tl)))
       /\ last' = Call("save_timeline", << >>, None, r.ret, << >>)
       /\ UNCHANGED clock

\* save_timeline stopped (an I/O error, the process killed) after open() has
\* truncated the file and json.dump has written `written` of its chunks
SaveInterrupted(written) ==
    LET r == StampLastUpdated(timeline, clock)
    IN /\ ~Raised(r.ret)
       /\ written < NumChunks(json_dumps(r.tl))
       /\ timeline' = r.tl
       /\ file' = FileOf(json_dumps(r.tl), written)
       /\ last' = Call("save_timeline", << >>, None, Raise("OSError"), << >>)
       /\ UNCHANGED clock

LoadTimeline ==
    LET r == load_timeline(file, clock)
    IN /\ timeline' = IF Raised(r) THEN timeline ELSE r.val
       /\ last' = Call("load_timeline", << >>, None, IF Raised(r) THEN r ELSE None, << >>)
       /\ UNCHANGED <<clock, file>>

\* the UTC clock moves on
Tick ==
    /\ clock < MaxClock
    /\ clock' = clock + 1
    /\ UNCHANGED <<timeline, file, last>>

\* something other than this program leaves content at filepath
StoredExternally(content) ==
    /\ file' = content
    /\ last' = Call("external", << >>, None, None, << >>)
    /\ UNCHANGED <<timeline, clock>>

(***************************************************************************)
(* Specifications.  Each draws the arguments of the calls from small sets; *)
(* a metric path is given as the chunks of its string.                     *)
(***************************************************************************)
\* Recording into a group, into a leaf below a leaf, at a key that names a
\* descriptive attribute, at a descriptive attribute that exists, and into a
\* journal entry; the flattened view.
Paths ==
    {<<"wikidata", ".", "m">>,
     <<"wikidata", ".", "m", ".", "n">>,
     <<"wikidata", ".", "name">>,
     <<"wikidata", ".", "description">>}

Values == {PyInt(1), PyInt(2)}

Next ==
    \/ \E path \in Paths, value \in Values :
            AddObservation(path, value, None, None, None)
    \/ \E value \in Values :
            AddJournalObservation("Q1", "articles", value, PyStr("A"), None)
    \/ GetAllLatestMetrics
    \/ Tick

Spec == Init /\ [][Next]_vars

\* Every operation that works on the document in memory, save included.
ReadPaths == {<<"wikidata", ".", "m">>}

AllQids == {"Q1", "description"}

NextAll ==
    \/ \E value \in Values :
            AddObservation(<<"wikidata", ".", "m">>, value, None, None, None)
    \/ \E qid \in AllQids, value \in Values :
            AddJournalObservation(qid, "articles", value, None, None)
    \/ \E path \in ReadPaths : GetMetricSeries(path)
    \/ \E path \in ReadPaths : GetLatestValue(path)
    \/ GetAllLatestMetrics
    \/ SaveTimeline
    \/ Tick

SpecAll == Init /\ [][NextAll]_vars

\* add_observation called again and again: a leaf, a descriptive attribute of
\* a group, the empty string, an empty segment; integers and a boolean.
TwicePaths ==
    {<<"wikidata", ".", "m">>,
     <<"wikidata", ".", "description">>,
     << >>,
     <<"m", ".", ".", "n">>}

TwiceValues == {PyInt(1), PyInt(2), PyBool(TRUE)}

NextTwice ==
    \/ \E path \in TwicePaths, value \in TwiceValues :
            AddObservation(path, value, None, None, None)
    \/ Tick

SpecTwice == Init /\ [][NextTwice]_vars

\* The store: values of every JSON type recorded, saved and loaded back.
StoredValues == {PyInt(1), PyStr("1"), PyFloat(1), PyBool(FALSE), None}

NextRoundTrip ==
    \/ \E value \in StoredValues :
            AddObservation(<<"wikidata", ".", "m">>, value, None, None, None)
    \/ SaveTimeline
    \/ LoadTimeline
    \/ Tick

SpecRoundTrip == Init /\ [][NextRoundTrip]_vars

\* The store: load and save, a save cut short, and files of other origin.
FooBar == (<< >> :> EmptyDict) @@ (<<"foo">> :> PyStr("bar"))

Version1 ==
    (<< >> :> EmptyDict)
    @@ (<<"metadata">> :> EmptyDict)
    @@ (<<"metadata", "version">> :> PyStr("1.0"))
    @@ (<<"metrics">> :> EmptyDict)

Unversioned ==
    (<< >> :> EmptyDict) @@ (<<"metadata">> :> EmptyDict) @@ (<<"metrics">> :> EmptyDict)

Scalar == (<< >> :> PyInt(5))

\* a version "2.0" document without any group
BareV2 ==
    (<< >> :> EmptyDict)
    @@ (<<"metadata">> :> EmptyDict)
    @@ (<<"metadata", "version">> :> PyStr("2.0"))
    @@ (<<"metrics">> :> EmptyDict)

ExternalFiles ==
    {NoFile} \cup {FileOf(json_dumps(d), NumChunks(json_dumps(d))) :
                    d \in {FooBar, Version1, Unversioned, Scalar, BareV2}}

\* where a save may be cut short: right after open(), or after this many chunks
CutPoints == {0, 3}

NextStore ==
    \/ \E value \in Values :
            AddObservation(<<"wikidata", ".", "m">>, value, None, None, None)
    \/ SaveTimeline
    \/ \E written \in CutPoints : SaveInterrupted(written)
    \/ LoadTimeline
    \/ \E content \in ExternalFiles : StoredExternally(content)
    \/ Tick

SpecStore == Init /\ [][NextStore]_vars

\* Journals: entries written with and without a name and a partner, a metric
\* type that is also the key of an attribute, and add_observation at, on and
\* through a journal entry.
\* journal_name and partner as the calls give them
JournalOpts == {<<None, None>>, <<PyStr("A"), PyStr("P")>>, <<PyStr("B"), PyStr("R")>>}

MetricTypes == {"articles", "name"}

JournalPaths ==
    {<<"wikidata", ".", "journals", ".", "Q1">>,
     <<"wikidata", ".", "journals", ".", "Q1", ".", "name">>,
     <<"wikidata", ".", "journals", ".", "Q1", ".", "name", ".", "x">>}

NextJournal ==
    \/ \E metric_type \in MetricTypes, value \in Values, opts \in JournalOpts :
            AddJournalObservation("Q1", metric_type, value, opts[1], opts[2])
    \/ \E path \in JournalPaths :
            AddObservation(path, PyInt(1), None, None, None)
    \/ Tick

SpecJournal == Init /\ [][NextJournal]_vars

\* Reading: a leaf that holds integers and None, a path that does not exist,
\* a descriptive attribute, a path through one, and the series key of a leaf.
ReaderPaths ==
    {<<"wikidata", ".", "m">>,
     <<"wikidata", ".", "x">>,
     <<"wikidata", ".", "description">>,
     <<"wikidata", ".", "description", ".", "m">>,
     <<"wikidata", ".", "m", ".", "series">>}

ReadValues == {PyInt(1), None}

NextRead ==
    \/ \E value \in ReadValues :
            AddObservation(<<"wikidata", ".", "m">>, value, None, None, None)
    \/ \E path \in ReaderPaths : GetMetricSeries(path)
    \/ \E path \in ReaderPaths : GetLatestValue(path)
    \/ Tick

SpecRead == Init /\ [][NextRead]_vars

\* The optional arguments of add_observation (notes, metric_name,
\* metric_description): none, all three, three others, an empty name; on a
\* leaf and at the key of an attribute of that leaf.
MetricOpts ==
    {<<None, None, None>>,
     <<PyStr("s"), PyStr("N"), PyStr("D")>>,
     <<PyStr("s2"), PyStr("N2"), PyStr("D2")>>,
     <<None, PyStr(""), None>>}

OptPaths ==
    {<<"wikidata", ".", "m">>,
     <<"wikidata", ".", "m", ".", "name">>}

NextOpts ==
    \/ \E path \in OptPaths, value \in Values, opts \in MetricOpts :
            AddObservation(path, value, opts[1], opts[2], opts[3])
    \/ Tick

SpecOpts == Init /\ [][NextOpts]_vars

(***************************************************************************)
(* Properties.                                                             *)
(***************************************************************************)
True == PyBool(TRUE)
False == PyBool(FALSE)

\* every segment of the path is a non-empty string
WellFormed(metric_path) == \A i \in DOMAIN Split(metric_path) : Split(metric_path)[i] # ""

\* the values of a series, in order
Vs(items) == [i \in DOMAIN items |-> items[i].v]

\* a step that is a call (Tick is the one action that moves the clock)
IsCall == clock' = clock

\* the leaves (nodes with a series key) whose series holds observations
NonEmptyLeaves(t) ==
    {p \in DOMAIN t : /\ Len(p) > 1 /\ p[1] = "metrics"
                      /\ t[p].k = "dict"
                      /\ Has(t, Append(p, "series"))
                      /\ t[Append(p, "series")].k = "list"
                      /\ t[Append(p, "series")].items # << >>}

\* C1 (I2): in every document reached by add_observation and
\* add_journal_observation calls, no series holds two consecutive
\* observations with equal v.
NoConsecutiveEqual ==
    \A p \in DOMAIN timeline :
        timeline[p].k = "list" =>
            \A i \in 1..(Len(timeline[p].items) - 1) :
                timeline[p].items[i].v # timeline[p].items[i + 1].v

\* a write was suppressed on a series that holds two observations
SuppressedAfterChange ==
    /\ last.op \in {"add_observation", "add_journal_observation"}
    /\ last.ret = False
    /\ Len(last.pre) >= 2

\* C2 (P1): on a well-formed path whose series is empty or ends in a value
\* other than v, add_observation with v returns True and appends one
\* observation, and the same call made again returns False and appends none.
IdempotentRecord ==
    [][(IsCall /\ last'.op = "add_observation" /\ WellFormed(last'.arg)) =>
         /\ (last'.pre = << >> \/ last'.pre[Len(last'.pre)].v # last'.value) =>
               /\ last'.ret = True
               /\ Vs(SeriesAt(timeline', last'.arg)) = Append(Vs(last'.pre), last'.value)
         /\ (/\ last.op = "add_observation" /\ last.arg = last'.arg
             /\ last.value = last'.value /\ last.ret = True) =>
               /\ last'.ret = False
               /\ SeriesAt(timeline', last'.arg) = last'.pre]_vars

\* C3 (P2): on a well-formed path whose series is empty or does not end in v1,
\* add_observation with v1 and then with v2 # v1 returns True both times and
\* appends v1 and v2 in that order.
ChangeTriggersAppend ==
    [][(/\ IsCall /\ last'.op = "add_observation" /\ WellFormed(last'.arg)
        /\ last.op = "add_observation" /\ last.arg = last'.arg
        /\ last.value # last'.value
        /\ (last.pre = << >> \/ last.pre[Len(last.pre)].v # last.value)) =>
         /\ last.ret = True
         /\ last'.ret = True
         /\ Vs(SeriesAt(timeline', last'.arg))
                = Append(Append(Vs(last.pre), last.value), last'.value)]_vars

FlattenComplete ==
    LET r == get_all_latest_metrics(timeline) IN
    /\ r.k = "latest"
    /\ {e.key : e \in r.out}
         = {DotJoin(Tail(p)) : p \in NonEmptyLeaves(timeline)}
    /\ Cardinality(r.out) = Cardinality({e.key : e \in r.out})

\* C6: add_observation with a malformed path raises and leaves the document
\* as it was; no key equal to the empty string is ever created.
MalformedRejected ==
    [][(IsCall /\ last'.op = "add_observation" /\ ~WellFormed(last'.arg)) =>
         /\ Raised(last'.ret)
         /\ timeline' = timeline
         /\ \A p \in DOMAIN timeline' : \A i \in DOMAIN p : p[i] # ""]_vars

\* the parsed document holds the metadata/metrics pair
HasPair(data) ==
    data[<< >>].k = "dict" /\ Has(data, <<"metadata">>) /\ Has(data, <<"metrics">>)

\* the parsed document is one load is to accept: the pair, both objects, and
\* metadata.version "2.0"
Compatible(data) ==
    /\ HasPair(data)
    /\ data[<<"metadata">>].k = "dict"
    /\ data[<<"metrics">>].k = "dict"
    /\ Has(data, <<"metadata", "version">>)
    /\ data[<<"metadata", "version">>] = PyStr("2.0")

\* C7: a stored document that has the metadata/metrics pair but is not a
\* version "2.0" document makes load_timeline return a fresh empty document.
VersionChecked ==
    [][(/\ IsCall /\ last'.op = "load_timeline" /\ Complete(file)
        /\ HasPair(json_loads(file.text))
        /\ ~Compatible(json_loads(file.text))) =>
         timeline' = create_empty_timeline(clock)]_vars

\* C8: load_timeline does not raise for an absent file nor for a parsed
\* document without the metadata/metrics pair, and returns the fresh empty
\* document in both cases; a compatible stored document is returned as it is.
LoadNeverFails ==
    [][(IsCall /\ last'.op = "load_timeline") =>
         /\ (~file.exists \/ (Complete(file) /\ ~HasPair(json_loads(file.text)))) =>
               /\ ~Raised(last'.ret)
               /\ timeline' = create_empty_timeline(clock)
         /\ (Complete(file) /\ Compatible(json_loads(file.text))) =>
               /\ ~Raised(last'.ret)
               /\ timeline' = json_loads(file.text)]_vars

\* two documents that differ at most in metadata.last_updated
SameButLastUpdated(a, b) ==
    LET keep(t) == DOMAIN t \ {<<"metadata", "last_updated">>}
    IN keep(a) = keep(b) /\ \A p \in keep(a) : a[p] = b[p]

\* C9 (P3): load_timeline of what save_timeline wrote returns the document
\* that was saved, apart from metadata.last_updated: same tree, same
\* attributes, every series with the same t and v (v of the same type) in the
\* same order.
RoundTrip ==
    [][IsCall =>
         /\ (last'.op = "save_timeline" /\ ~Raised(last'.ret)) =>
               /\ ~Raised(load_timeline(file', clock))
               /\ SameButLastUpdated(load_timeline(file', clock).val, timeline)
         /\ (/\ last.op = "save_timeline" /\ ~Raised(last.ret)
             /\ last'.op = "load_timeline") =>
               /\ ~Raised(last'.ret)
               /\ SameButLastUpdated(timeline', timeline)]_vars

\* a saved document with observations has been loaded back
LoadedBack ==
    /\ last.op = "load_timeline"
    /\ ~Raised(last.ret)
    /\ file.exists
    /\ timeline[<<"metadata", "last_updated">>] # None
    /\ NumObs(timeline) >= 2

\* C10: whatever happens to a save_timeline once it has started, a file that
\* held a complete document holds one afterwards: the one stored before or
\* the new one.
SaveAtomic ==
    [][(IsCall /\ last'.op = "save_timeline" /\ Complete(file)) =>
         \/ file' = file
         \/ Complete(file') /\ file'.text = json_dumps(timeline')]_vars

\* the name and partner attributes that journal entries of t hold
JournalAttrs(t) ==
    {p \in DOMAIN t : /\ Len(p) = 5
                      /\ SubSeq(p, 1, 3) = <<"metrics", "wikidata", "journals">>
                      /\ p[5] \in {"name", "partner"}
                      /\ t[p].k # "dict"}

\* C11 (P5, I4): a name or partner that a journal entry holds is left as it is
\* by every later add_journal_observation and add_observation call, whatever
\* journal_name and partner the call is given.
FirstWriterWins ==
    [][\A p \in JournalAttrs(timeline) : Has(timeline', p) /\ timeline'[p] = timeline[p]]_vars

\* an entry named A with partner P has been written again as B with partner R
SecondWriterIgnored ==
    /\ last.op = "add_journal_observation"
    /\ last.opts = <<PyStr("B"), PyStr("R")>>
    /\ last.ret = True
    /\ Has(timeline, <<"metrics", "wikidata", "journals", "Q1", "name">>)
    /\ timeline[<<"metrics", "wikidata", "journals", "Q1", "name">>] = PyStr("A")
    /\ Has(timeline, <<"metrics", "wikidata", "journals", "Q1", "partner">>)
    /\ timeline[<<"metrics", "wikidata", "journals", "Q1", "partner">>] = PyStr("P")

\* C12: on a well-formed path, a value whose type differs from the type of the
\* last stored v is a change: the call appends it and returns True.
CrossTypeIsChange ==
    [][(/\ IsCall /\ last'.op \in {"add_observation", "add_journal_observation"}
        /\ WellFormed(last'.arg)
        /\ last'.pre # << >>
        /\ last'.pre[Len(last'.pre)].v.k # last'.value.k) =>
         /\ last'.ret = True
         /\ Vs(SeriesAt(timeline', last'.arg)) = Append(Vs(last'.pre), last'.value)]_vars

\* C13: get_metric_series never raises: it returns the observations of the
\* leaf the path resolves to, and the empty list for every other path.
SeriesTotal ==
    [][(IsCall /\ last'.op = "get_metric_series") =>
         /\ ~Raised(last'.ret)
         /\ last'.ret = Return(<< >> :> PyList(SeriesAt(timeline, last'.arg)))]_vars

\* the absent result of get_latest_value
Absent == Return(<< >> :> None)

\* C14: get_latest_value returns the v of the last observation of the series,
\* and the absent result exactly when the series is empty or the path does not
\* exist, so that a recorded None is told from a path never recorded.
LatestOrAbsent ==
    [][(IsCall /\ last'.op = "get_latest_value" /\ ~Raised(last'.ret)) =>
         LET items == SeriesAt(timeline, last'.arg) IN
         /\ items # << >> => last'.ret = Return(<< >> :> items[Len(items)].v)
         /\ last'.ret = Absent <=> items = << >>]_vars

\* C15: right after add_observation of v on a well-formed path has returned,
\* get_latest_value of that path is v and the last observation that
\* get_metric_series returns has v as its value.
ReadYourWrite ==
    [][(/\ IsCall /\ last'.op = "add_observation" /\ WellFormed(last'.arg)
        /\ ~Raised(last'.ret)) =>
         LET got == get_metric_series(timeline', last'.arg) IN
         /\ get_latest_value(timeline', last'.arg) = Return(<< >> :> last'.value)
         /\ ~Raised(got)
         /\ got.val[<< >>].k = "list"
         /\ got.val[<< >>].items # << >>
         /\ got.val[<< >>].items[Len(got.val[<< >>].items)].v = last'.value]_vars

\* C16: add_journal_observation(qid, metric_type, value) does what
\* add_observation("wikidata.journals.<qid>.<metric_type>", value) does on the
\* same document: the same return, the same series at that path, the same leaf.
JournalIsRecord ==
    [][(IsCall /\ last'.op = "add_journal_observation") =>
         LET r == add_observation(timeline, clock, last'.arg, last'.value, None, None, None)
             mp == <<"metrics">> \o Split(last'.arg)
         IN /\ last'.ret = r.ret
            /\ get_metric_series(timeline', last'.arg) = get_metric_series(r.tl, last'.arg)
            /\ Has(timeline', mp) = Has(r.tl, mp)
            /\ Has(timeline', mp) => SubTree(timeline', mp) = SubTree(r.tl, mp)]_vars

\* C17: after add_journal_observation(qid, metric_type, v) has returned,
\* get_all_latest_metrics has the key "wikidata.journals.<qid>.<metric_type>"
\* with the value v.
JournalInLatest ==
    [][(IsCall /\ last'.op = "add_journal_observation" /\ ~Raised(last'.ret)) =>
         LET r == get_all_latest_metrics(timeline') IN
         /\ r.k = "latest"
         /\ \E e \in r.out : e.key = DotJoin(Split(last'.arg)) /\ e.value = last'.value]_vars

\* C18: an add_observation call that returns False leaves the document as it
\* was: no node created, no attribute set, no series modified.
FalseLeavesUnchanged ==
    [][(IsCall /\ last'.op = "add_observation" /\ last'.ret = False) =>
         timeline' = timeline]_vars

\* a value recorded again at a later time, under another name, was refused
RefusedLater ==
    /\ last.op = "add_observation"
    /\ last.ret = False
    /\ last.pre # << >>
    /\ last.pre[Len(last.pre)].t # format_timestamp(clock)
    /\ last.opts[2] = PyStr("N2")

\* what the document held before the call is still there and as it was, the
\* series the call appends to apart
KeepsWhatWasThere(metric_path) ==
    \A p \in DOMAIN timeline :
        p # <<"metrics">> \o Split(metric_path) \o <<"series">> =>
            Has(timeline', p) /\ timeline'[p] = timeline[p]

\* a node that was there without a series has none after the call
StaysInterior(metric_path) ==
    LET mp == <<"metrics">> \o Split(metric_path) IN
    (Has(timeline, mp) /\ timeline[mp].k = "dict" /\ ~Has(timeline, Append(mp, "series"))) =>
        ~Has(timeline', Append(mp, "series"))

\* C19: the descent of add_observation creates empty nodes for the segments
\* that are missing and alters nothing that exists on the way; an interior
\* node that the last segment addresses is not turned into a leaf.
DescentPreserves ==
    [][(IsCall /\ last'.op = "add_observation") =>
         /\ KeepsWhatWasThere(last'.arg)
         /\ StaysInterior(last'.arg)
         /\ \A p \in DOMAIN timeline' \ DOMAIN timeline :
               IsPrefix(p, <<"metrics">> \o Split(last'.arg)) /\ Len(p) <= Len(Split(last'.arg)) =>
                  timeline'[p] = EmptyDict]_vars

\* an optional argument that was given: a string that is not empty
Supplied(x) == x.k = "str" /\ x.s # ""

\* the descriptive attributes of a leaf, and those the optional arguments set
LeafAttrs == {"name", "description", "notes", "unit"}
OptAttrs == <<"notes", "name", "description">>

\* the attributes with a value that the leaves of t hold
LeafAttrValues(t) ==
    {p \in DOMAIN t : /\ Len(p) > 2 /\ p[1] = "metrics"
                      /\ p[Len(p)] \in LeafAttrs
                      /\ t[p].k = "str"
                      /\ Has(t, Append(SubSeq(p, 1, Len(p) - 1), "series"))}

\* C20: the call of add_observation that creates a leaf gives it the unit
\* "count" and the name, description and notes it was given, and no others;
\* a later call on the path leaves the attributes of the leaf as they are,
\* whatever optional arguments it has, and no call changes an attribute value.
LeafOptsFixed ==
    [][(IsCall /\ last'.op = "add_observation") =>
         LET mp == <<"metrics">> \o Split(last'.arg) IN
         /\ (~Raised(last'.ret) /\ ~Has(timeline, mp)) =>
               /\ Has(timeline', Append(mp, "unit"))
               /\ timeline'[Append(mp, "unit")] = PyStr("count")
               /\ \A i \in 1..3 :
                     IF Supplied(last'.opts[i])
                     THEN /\ Has(timeline', Append(mp, OptAttrs[i]))
                          /\ timeline'[Append(mp, OptAttrs[i])] = last'.opts[i]
                     ELSE ~Has(timeline', Append(mp, OptAttrs[i]))
         /\ Has(timeline, mp) =>
               \A a \in LeafAttrs :
                  /\ Has(timeline', Append(mp, a)) = Has(timeline, Append(mp, a))
                  /\ Has(timeline, Append(mp, a)) =>
                        timeline'[Append(mp, a)] = timeline[Append(mp, a)]
         /\ \A p \in LeafAttrValues(timeline) :
               Has(timeline', p) /\ timeline'[p] = timeline[p]]_vars

\* a leaf created with a name has been written again under other arguments
LaterOptsIgnored ==
    /\ last.op = "add_observation"
    /\ last.ret = True
    /\ Len(last.pre) >= 1
    /\ last.opts = <<PyStr("s2"), PyStr("N2"), PyStr("D2")>>
    /\ Has(timeline, <<"metrics", "wikidata", "m", "name">>)
    /\ timeline[<<"metrics", "wikidata", "m", "name">>] = PyStr("N")

RECURSIVE Dotted(_)
\* the chunks of the dotted path of a sequence of keys
Dotted(keys) ==
    IF Len(keys) <= 1 THEN keys
    ELSE <<keys[1], ".">> \o Dotted(Tail(keys))

\* C21: every entry of get_all_latest_metrics is keyed by the dotted path of a
\* leaf and carries the v and t of the last observation of that leaf, and as
\* name the name attribute of the leaf, or the key of the leaf when it has
\* none; its value is what get_latest_value returns for the key.
LatestMatchesLeaf ==
    LET r == get_all_latest_metrics(timeline) IN
    r.k = "latest" =>
        \A e \in r.out :
            \E p \in NonEmptyLeaves(timeline) :
                LET items == timeline[Append(p, "series")].items
                    np == Append(p, "name")
                IN /\ DotJoin(Tail(p)) = e.key
                   /\ e.value = items[Len(items)].v
                   /\ e.timestamp = items[Len(items)].t
                   /\ e.name = IF Has(timeline, np) /\ timeline[np].k = "str"
                               THEN timeline[np] ELSE PyStr(p[Len(p)])
                   /\ get_latest_value(timeline, Dotted(Tail(p))) = Return(<< >> :> e.value)

\* C22: save_timeline sets metadata.last_updated to the current time and
\* leaves the rest of the document in memory as it was; what it writes holds
\* the new last_updated.
SaveStampsOnly ==
    [][(IsCall /\ last'.op = "save_timeline") =>
         LET lu == <<"metadata", "last_updated">> IN
         /\ DOMAIN timeline' \ {lu} = DOMAIN timeline \ {lu}
         /\ \A p \in DOMAIN timeline \ {lu} : timeline'[p] = timeline[p]
         /\ ~Raised(last'.ret) =>
               /\ timeline'[lu] = format_timestamp(clock)
               /\ Complete(file')
               /\ json_loads(file'.text)[lu] = format_timestamp(clock)
               /\ json_loads(file'.text) = timeline']_vars

\* a document with observations, created earlier, has been saved
SavedLater ==
    /\ last.op = "save_timeline"
    /\ ~Raised(last.ret)
    /\ NumObs(timeline) >= 1
    /\ Has(timeline, <<"metadata", "created">>)
    /\ timeline[<<"metadata", "created">>] # timeline[<<"metadata", "last_updated">>]

\* load_timeline has just returned a document it created
FreshlyCreated ==
    /\ last.op = "load_timeline"
    /\ ~Raised(last.ret)
    /\ (~file.exists \/ ~IsV2Format(json_loads(file.text)))

\* version "2.0", last_updated None, the groups wikidata and opencitations
\* and nothing else under metrics, no series anywhere
FreshHead ==
    /\ timeline[<<"metadata", "version">>] = PyStr("2.0")
    /\ timeline[<<"metadata", "last_updated">>] = None
    /\ Keys(timeline, <<"metrics">>) = {"wikidata", "opencitations"}
    /\ \A p \in DOMAIN timeline :
          timeline[p].k # "list" /\ (p # << >> => p[Len(p)] # "series")

\* C23 as stated: the document just created has version "2.0", no
\* last_updated, and under metrics the groups wikidata and opencitations,
\* each with a description and nothing else.
FreshOnlyDescriptions ==
    FreshlyCreated =>
        /\ FreshHead
        /\ \A g \in {"wikidata", "opencitations"} :
              /\ Keys(timeline, <<"metrics", g>>) = {"description"}
              /\ timeline[<<"metrics", g, "description">>].k = "str"

\* C23 as amended: wikidata holds, besides its description, the group
\* journals, which holds a description and nothing else.
FreshGroupsSeeded ==
    FreshlyCreated =>
        /\ FreshHead
        /\ Keys(timeline, <<"metrics", "opencitations">>) = {"description"}
        /\ Keys(timeline, <<"metrics", "wikidata">>) = {"description", "journals"}
        /\ Keys(timeline, <<"metrics", "wikidata", "journals">>) = {"description"}
        /\ timeline[<<"metrics", "wikidata", "journals">>] = EmptyDict
        /\ \A p \in {<<"metrics", "opencitations", "description">>,
                      <<"metrics", "wikidata", "description">>,
                      <<"metrics", "wikidata", "journals", "description">>} :
              timeline[p].k = "str" /\ timeline[p].s # ""

\* a document created later on, in place of a stored one without the pair
CreatedInPlace ==
    /\ FreshlyCreated
    /\ file.exists
    /\ timeline[<<"metadata", "created">>] = format_timestamp(MaxClock)

\* C24: load_timeline on a file that does not parse raises to the caller and
\* returns no document, neither a created one nor a part of the stored one.
CorruptIsFatal ==
    [][(IsCall /\ last'.op = "load_timeline" /\ file.exists /\ ~Complete(file)) =>
         /\ Raised(last'.ret)
         /\ last'.ret = Raise("JSONDecodeError")
         /\ timeline' = timeline]_vars

\* a file cut short after some of its content was loaded
CorruptLoaded ==
    /\ last.op = "load_timeline"
    /\ Raised(last.ret)
    /\ file.exists
    /\ ~Complete(file)
    /\ file.written > 0

\* the keys of the descriptive attributes
AttributeKeys == {"description", "name", "partner", "notes", "unit"}

\* C25: over add_observation and add_journal_observation calls the metrics
\* tree only grows: every key stays, and every descriptive attribute keeps
\* its value.
OnlyGrows ==
    [][(IsCall /\ last'.op \in {"add_observation", "add_journal_observation"}) =>
         \A p \in DOMAIN timeline :
            (Len(p) > 1 /\ p[1] = "metrics") =>
               /\ Has(timeline', p)
               /\ (p[Len(p)] \in AttributeKeys /\ timeline[p].k = "str") =>
                     timeline'[p] = timeline[p]]_vars

\* C26: an add_journal_observation call that returns False leaves the
\* document as it was, the name and partner of the entry included.
JournalFalseLeavesUnchanged ==
    [][(IsCall /\ last'.op = "add_journal_observation" /\ last'.ret = False) =>
         timeline' = timeline]_vars

\* C27: no node of the metrics tree that has a series key has a child that is
\* a node itself.
LeafOrInterior ==
    \A p \in DOMAIN timeline :
        (Len(p) > 1 /\ p[1] = "metrics" /\ timeline[p].k = "dict"
         /\ Has(timeline, Append(p, "series"))) =>
            \A key \in Keys(timeline, p) : timeline[Append(p, key)].k # "dict"

\* load_timeline has just returned the stored document, one of version "2.0"
LoadedStored ==
    /\ last.op = "load_timeline"
    /\ ~Raised(last.ret)
    /\ Complete(file)
    /\ IsV2Format(json_loads(file.text))
    /\ Compatible(json_loads(file.text))
    /\ timeline = json_loads(file.text)

\* C28: on a document that load_timeline returned as the stored one, the
\* other operations run without raising.
LoadedIsUsable ==
    LoadedStored =>
        /\ ~Raised(add_observation(timeline, clock, <<"wikidata", ".", "m">>, PyInt(1),
                                   None, None, None).ret)
        /\ ~Raised(add_journal_observation(timeline, clock, "Q1", "articles", PyInt(1),
                                           None, None).ret)
        /\ ~Raised(get_metric_series(timeline, <<"wikidata", ".", "m">>))
        /\ ~Raised(get_all_latest_metrics(timeline))
        /\ ~Raised(StampLastUpdated(timeline, clock).ret)

\* C29: an add_observation or add_journal_observation call that raises leaves
\* the document as it was before the call.
RaiseLeavesUnchanged ==
    [][(/\ IsCall /\ last'.op \in {"add_observation", "add_journal_observation"}
        /\ Raised(last'.ret)) =>
         timeline' = timeline]_vars

\* the paths of the series of t
SeriesPaths(t) == {p \in DOMAIN t : t[p].k = "list"}

====
